---- MODULE Spec2Model ----
(***************************************************************************)
(* repo_cleaner: the two-phase run of src/main.rs.  A run without --commit *)
(* (Prepare) mirrors, archives and rewrites every listed repository; a run *)
(* with --commit (Publish) force-pushes every listed repository.  The      *)
(* filesystem under ./cleaner (mirrors and archives) is the only state     *)
(* that survives from one run to the next.                                 *)
(*                                                                         *)
(* Names (repository coordinates, branch names, paths) are sequences of    *)
(* tokens; "/" and "." are tokens of their own, so that split('/'),        *)
(* Path::join, Path::parent and Path::with_extension are computed, not     *)
(* assumed.                                                                *)
(***************************************************************************)
EXTENDS Integers, Sequences, FiniteSets, TLC

(* ---------------------------- bounds ----------------------------------- *)

\* number of runs of the program in one behaviour
MaxRuns == 2

\* number of environment failures (I/O error, network error, an external
\* command that cannot be started or exits non-zero) in one behaviour
MaxFaults == 1

(* ------------------------ names and paths ------------------------------ *)

Main == <<"main">>
FeatX == <<"feature", "/", "x">>
V10 == <<"v1", ".", "0">>
V11 == <<"v1", ".", "1">>

Widgets == <<"acme", "/", "widgets">>
Tools == <<"acme", "/", "tools">>

\* conf.repositories, in the order of the configuration file
Repositories == << Widgets, Tools >>

RepoSet == { Repositories[k] : k \in 1..Len(Repositories) }

\* the branches each remote holds; every remote has the default branch main
RemoteBranches(repo) == IF repo = Widgets THEN { Main } ELSE { Main, V10, V11, FeatX }

\* a branch of refs/remotes/origin is enumerated under the name origin/<b>
Origin(b) == <<"origin", "/">> \o b

\* the order in which the reference iterator yields names: refs/heads
\* before refs/remotes, each sorted by name
BranchOrder == << FeatX, Main, V10, V11, Origin(FeatX), Origin(Main), Origin(V10), Origin(V11) >>

\* positions of the token t in the sequence s
Positions(s, t) == { k \in 1..Len(s) : s[k] = t }

SetMax(S) == CHOOSE m \in S : \A k \in S : k <= m

\* Path::join of a relative path
Join(p, q) == p \o <<"/">> \o q

\* str::split("/").last(): the tokens after the last separator
SplitLast(s) == IF Positions(s, "/") = {} THEN s ELSE SubSeq(s, SetMax(Positions(s, "/")) + 1, Len(s))

\* Path::with_extension: the last component is cut at its last '.', unless
\* that '.' starts the component, and ".<ext>" is appended
WithExtension(p, ext) ==
    LET name == SplitLast(p)
        start == Len(p) - Len(name)
        dots == { k \in Positions(name, ".") : k > 1 }
    IN  IF name = <<>> THEN p
        ELSE IF dots = {} THEN p \o <<".", ext>>
        ELSE SubSeq(p, 1, start + SetMax(dots) - 1) \o <<".", ext>>

\* base.join("repos") and base.join("backups"), relative to ./cleaner
repos == <<"repos">>
backups == <<"backups">>

\* the path of the whole-repository archive
WholeArchivePath(repo) == WithExtension(Join(backups, repo), "tar")

\* the path of the archive taken for a branch
BranchArchivePath(repo, branch) == WithExtension(Join(Join(backups, repo), branch), "tar")

(* ---------------------- the generated callbacks ------------------------ *)

\* characters of an address
Alphabet == {"a", "b"}

\* longest address
MaxLen == 2

\* most keys of a substitution map
MaxKeys == 2

Addresses == UNION { [1..n -> Alphabet] : n \in 1..MaxLen }

\* the maps email_substitutions can be
Policies == UNION { [K -> Addresses] : K \in { S \in SUBSET Addresses : Cardinality(S) <= MaxKeys } }

\* the orders in which the keys of a map can be iterated
Orders(K) == { o \in [1..Cardinality(K) -> K] : \A m, n \in 1..Cardinality(K) : o[m] = o[n] => m = n }

RECURSIVE JoinKeys(_)
\* Vec<String>::join(","): the keys with a comma between them
JoinKeys(o) == IF o = <<>> THEN <<>>
               ELSE IF Len(o) = 1 THEN o[1]
               ELSE o[1] \o <<",">> \o JoinKeys(Tail(o))

\* Python's `s in t` on strings: s occurs in t as a substring
Contains(t, s) == \E k \in 0..(Len(t) - Len(s)) : SubSeq(t, k + 1, k + Len(s)) = s

NoResult == [raised |-> FALSE, value |-> <<>>, called |-> FALSE]

Returned(v) == [raised |-> FALSE, value |-> v, called |-> TRUE]

\* the subscription of the dict with an absent key
KeyError == [raised |-> TRUE, value |-> <<>>, called |-> TRUE]

\* l.89-93: return email if email.decode() not in "<k1,k2,..>"
\*          else {<map>}[email.decode()].encode()
email_cleaner(subs, order, email) ==
    IF ~Contains(JoinKeys(order), email) THEN Returned(email)
    ELSE IF email \in DOMAIN subs THEN Returned(subs[email])
    ELSE KeyError

SetMin(S) == CHOOSE m \in S : \A k \in S : m <= k

\* the positions of the patterns of `order` that re.search finds in the name
\* (a pattern without metacharacters is found where it occurs)
Matching(order, name) == { k \in 1..Len(order) : Contains(name, order[k]) }

\* l.95-103: for rx in [<k1>, <k2>, ..]: if re.search(rx, name.decode()):
\*           return {<map>}[rx].encode()   and after the loop: return name
name_cleaner(subs, order, name) ==
    IF Matching(order, name) = {} THEN Returned(name)
    ELSE Returned(subs[order[SetMin(Matching(order, name))]])

(* ------------------------------ state ---------------------------------- *)

VARIABLES
    run,        \* number of runs started so far
    commit,     \* args.commit of the current run
    sign,       \* args.sign of the current run
    pc,         \* the statement main is at
    i,          \* index of the repository being processed
    todo,       \* branch names the branch iterator still has to yield
    branch,     \* the branch of the current loop iteration
    branches,   \* the counter `branches` of the current repository
    mirror,     \* repos/<repo>: the local mirror of every repository
    archives,   \* the archive files under backups/, by path
    log,        \* the steps executed in the current run, in order
    warned,     \* repositories the current run has warned about (l.275)
    failed,     \* where the run aborted: the repository and the statement
    clean,      \* no clone, fetch, archive or rewrite of the current repository failed
    prepared,   \* repositories some Prepare run has processed to the end without failure
    pushed,     \* repositories whose remote a force-push has overwritten
    faults,     \* environment failures injected so far
    emails,     \* conf.email_substitutions
    keys,       \* the order in which the HashMap yields its keys
    addr,       \* the address the email callback was last called with
    result,     \* what the callback did with it
    again,      \* what the email callback of the next run does with that result
    names,      \* conf.name_substitutions
    declared,   \* its patterns in the order of the configuration file
    norder,     \* the order in which the HashMap yields them
    name,       \* the name the name callback was last called with
    nresult,    \* what the callback did with it
    nagain      \* what the name callback of the next run does with that result

vars == << run, commit, sign, pc, i, todo, branch, branches, mirror, archives,
           log, warned, failed, clean, prepared, pushed, faults,
           emails, keys, addr, result, again,
           names, declared, norder, name, nresult, nagain >>

\* the name substitutions and the name callback's last call
nameVars == << names, declared, norder, name, nresult, nagain >>

\* the configuration and the callbacks' last calls
cbVars == << emails, keys, addr, result, again, nameVars >>

NoBranch == <<>>

\* no failure: the run has not aborted
NoFailure == [repo |-> <<>>, at |-> "none"]

\* repos/<repo> does not exist
AbsentMirror == [dir |-> FALSE, git |-> FALSE, locals |-> {}, remotes |-> {},
                 head |-> NoBranch, rewritten |-> FALSE, signed |-> FALSE]

\* a mirror already on disk before the first run: one branch, no
\* remote-tracking refs
ExistingMirror == [dir |-> TRUE, git |-> TRUE, locals |-> {Main}, remotes |-> {},
                   head |-> Main, rewritten |-> FALSE, signed |-> FALSE]

\* what RepoBuilder::clone leaves in an empty directory
ClonedMirror(repo) == [dir |-> TRUE, git |-> TRUE, locals |-> {Main},
                       remotes |-> RemoteBranches(repo),
                       head |-> Main, rewritten |-> FALSE, signed |-> FALSE]

\* the names repository.branches(None) yields: local and remote-tracking
BranchNames(m) == m.locals \cup { Origin(b) : b \in m.remotes }

\* the snapshot the branch iterator walks, in iteration order
EnumerateBranches(m) == SelectSeq(BranchOrder, LAMBDA b : b \in BranchNames(m))

cur == Repositories[i]

\* a step the run executed: ok is the exit status of a command (TRUE for a
\* step that is not a command), count the number a warning names
Event(op, b, args) == [op |-> op, repo |-> cur, branch |-> b, args |-> args,
                       ok |-> TRUE, count |-> 0]

\* a command that ran and exited with a non-zero status
Failed(e) == [e EXCEPT !.ok = FALSE]

CanFault == faults < MaxFaults

Init ==
    /\ run = 0
    /\ commit = FALSE
    /\ sign = FALSE
    /\ pc = "idle"
    /\ i = 1
    /\ todo = <<>>
    /\ branch = NoBranch
    /\ branches = 0
    /\ \E pre \in BOOLEAN :
         mirror = [r \in RepoSet |-> IF pre /\ r = Widgets THEN ExistingMirror ELSE AbsentMirror]
    /\ archives = <<>>
    /\ log = <<>>
    /\ warned = {}
    /\ failed = NoFailure
    /\ clean = TRUE
    /\ prepared = {}
    /\ pushed = {}
    /\ faults = 0
    /\ emails = (<<"a">> :> <<"b">>)
    /\ keys = << <<"a">> >>
    /\ addr = <<>>
    /\ result = NoResult
    /\ again = NoResult
    /\ names = <<>>
    /\ declared = <<>>
    /\ norder = <<>>
    /\ name = <<>>
    /\ nresult = NoResult
    /\ nagain = NoResult

\* a panic (unwrap, expect) or an Err returned from main (?): the process ends
Abort ==
    /\ pc' = "aborted"
    /\ failed' = [repo |-> cur, at |-> pc]
    /\ UNCHANGED << run, commit, sign, i, todo, branch, branches, warned, prepared, pushed >>

\* `continue` of the repository loop, or the end of its body
NextRepoPc == IF i + 1 > Len(Repositories) THEN "exited" ELSE "mkdir"

\* the phase test of l.109 inverted
StartRun_Inverted ==
    /\ pc \in {"idle", "exited", "aborted"}
    /\ UNCHANGED cbVars
    /\ run < MaxRuns
    /\ run' = run + 1
    /\ commit' \in BOOLEAN
    /\ sign' \in BOOLEAN
    /\ pc' = IF commit' THEN "mkdir" ELSE "push"
    /\ i' = 1
    /\ todo' = <<>>
    /\ branch' = NoBranch
    /\ branches' = 0
    /\ log' = <<>>
    /\ warned' = {}
    /\ failed' = NoFailure
    /\ clean' = TRUE
    /\ UNCHANGED << mirror, archives, prepared, pushed, faults >>

\* l.65, l.109: the arguments are parsed and the phase is chosen
StartRun ==
    /\ pc \in {"idle", "exited", "aborted"}
    /\ UNCHANGED cbVars
    /\ run < MaxRuns
    /\ run' = run + 1
    /\ commit' \in BOOLEAN
    /\ sign' \in BOOLEAN
    /\ pc' = IF commit' THEN "push" ELSE "mkdir"
    /\ i' = 1
    /\ todo' = <<>>
    /\ branch' = NoBranch
    /\ branches' = 0
    /\ log' = <<>>
    /\ warned' = {}
    /\ failed' = NoFailure
    /\ clean' = TRUE
    /\ UNCHANGED << mirror, archives, prepared, pushed, faults >>

\* l.137: std::fs::create_dir_all(repo_dir).unwrap()
CreateCloneDir ==
    /\ pc = "mkdir"
    /\ UNCHANGED cbVars
    /\ \/ /\ mirror' = [mirror EXCEPT ![cur].dir = TRUE]
          /\ log' = Append(log, Event("mkdir", NoBranch, <<>>))
          /\ pc' = "clone"
          /\ clean' = TRUE
          /\ UNCHANGED << run, commit, sign, i, todo, branch, branches, warned, failed,
                          prepared, pushed, faults >>
       \/ /\ CanFault
          /\ faults' = faults + 1
          /\ Abort
          /\ UNCHANGED << mirror, log, clean >>
    /\ UNCHANGED archives

\* a clone error that ends the run instead of skipping the repository
CloneRepository_Fatal ==
    /\ pc = "clone"
    /\ UNCHANGED cbVars
    /\ \/ /\ mirror[cur].git
          /\ pc' = "open"
          /\ UNCHANGED << mirror, i, log, clean, faults, failed >>
       \/ /\ ~mirror[cur].git
          /\ mirror' = [mirror EXCEPT ![cur] = ClonedMirror(cur)]
          /\ log' = Append(log, Event("clone", NoBranch, <<>>))
          /\ pc' = "pull"
          /\ UNCHANGED << i, clean, faults, failed >>
       \/ /\ ~mirror[cur].git
          /\ CanFault
          /\ faults' = faults + 1
          /\ log' = Append(log, Failed(Event("clone", NoBranch, <<>>)))
          /\ pc' = "aborted"
          /\ failed' = [repo |-> cur, at |-> pc]
          /\ clean' = FALSE
          /\ UNCHANGED << mirror, i >>
    /\ UNCHANGED << run, commit, sign, todo, branch, branches, archives, warned,
                    prepared, pushed >>

\* l.140-150: clone into repo_dir; Exists when the directory is not empty
CloneRepository ==
    /\ pc = "clone"
    /\ UNCHANGED cbVars
    /\ \/ /\ mirror[cur].git
          /\ pc' = "open"
          /\ UNCHANGED << mirror, i, log, clean, faults >>
       \/ /\ ~mirror[cur].git
          /\ mirror' = [mirror EXCEPT ![cur] = ClonedMirror(cur)]
          /\ log' = Append(log, Event("clone", NoBranch, <<>>))
          /\ pc' = "pull"
          /\ UNCHANGED << i, clean, faults >>
       \/ /\ ~mirror[cur].git
          /\ CanFault
          /\ faults' = faults + 1
          /\ log' = Append(log, Failed(Event("clone", NoBranch, <<>>)))
          /\ pc' = NextRepoPc
          /\ i' = i + 1
          /\ clean' = FALSE
          /\ UNCHANGED mirror
    /\ UNCHANGED << run, commit, sign, todo, branch, branches, archives, warned, failed,
                    prepared, pushed >>

\* l.153-161: Repository::open of the existing mirror
OpenRepository ==
    /\ pc = "open"
    /\ UNCHANGED cbVars
    /\ \/ /\ log' = Append(log, Event("open", NoBranch, <<>>))
          /\ pc' = "pull"
          /\ UNCHANGED << i, clean, faults >>
       \/ /\ CanFault
          /\ faults' = faults + 1
          /\ log' = Append(log, Failed(Event("open", NoBranch, <<>>)))
          /\ pc' = NextRepoPc
          /\ i' = i + 1
          /\ clean' = FALSE
    /\ UNCHANGED << run, commit, sign, todo, branch, branches, mirror, archives, warned,
                    failed, prepared, pushed >>

\* l.174-178: git pull --all; the exit status is not looked at
FetchAll ==
    /\ pc = "pull"
    /\ UNCHANGED cbVars
    /\ \/ /\ log' = Append(log, Event("pull", NoBranch, <<"pull", "--all">>))
          /\ pc' = "w_create"
          /\ \/ UNCHANGED << clean, faults >>
             \/ /\ CanFault
                /\ faults' = faults + 1
                /\ clean' = FALSE
          /\ UNCHANGED << run, commit, sign, i, todo, branch, branches, warned, failed,
                          prepared, pushed >>
       \/ /\ CanFault
          /\ faults' = faults + 1
          /\ Abort
          /\ UNCHANGED << log, clean >>
    /\ UNCHANGED << mirror, archives >>

(* ----------------------------- archives -------------------------------- *)

\* File::create truncates: a new, empty, open file replaces what was at the path
NewArchive(repo) == [of |-> repo, full |-> FALSE, closed |-> FALSE, rewritten |-> FALSE]

\* an archive that cannot be created skips the repository, not the run
CreateArchive_Continue(path, b, nextPc) ==
    \/ /\ archives' = (path :> NewArchive(cur)) @@ archives
       /\ log' = Append(log, Event("archive_create", b, path))
       /\ pc' = nextPc
       /\ UNCHANGED << run, commit, sign, i, todo, branch, branches, warned, failed,
                       prepared, pushed, clean, faults >>
    \/ /\ CanFault
       /\ faults' = faults + 1
       /\ pc' = NextRepoPc
       /\ i' = i + 1
       /\ clean' = FALSE
       /\ log' = Append(log, Failed(Event("archive_create", b, path)))
       /\ UNCHANGED << run, commit, sign, todo, branch, branches, warned, failed,
                       prepared, pushed, archives >>

\* create_dir_all(..).unwrap() and File::create(..)? in front of an archive
CreateArchive(path, b, nextPc) ==
    \/ /\ archives' = (path :> NewArchive(cur)) @@ archives
       /\ log' = Append(log, Event("archive_create", b, path))
       /\ pc' = nextPc
       /\ UNCHANGED << run, commit, sign, i, todo, branch, branches, warned, failed,
                       prepared, pushed, clean, faults >>
    \/ /\ CanFault
       /\ faults' = faults + 1
       /\ Abort
       /\ clean' = FALSE
       /\ log' = Append(log, Failed(Event("archive_create", b, path)))
       /\ UNCHANGED archives

\* the error of append_dir_all dropped instead of returned
AppendArchive_Swallowed(path, b, nextPc) ==
    \/ /\ archives' = [archives EXCEPT ![path].full = TRUE,
                                       ![path].rewritten = mirror[cur].rewritten]
       /\ log' = Append(log, Event("archive_append", b, path))
       /\ pc' = nextPc
       /\ UNCHANGED << run, commit, sign, i, todo, branch, branches, warned, failed,
                       prepared, pushed, clean, faults >>
    \/ /\ CanFault
       /\ faults' = faults + 1
       /\ pc' = nextPc
       /\ clean' = FALSE
       /\ log' = Append(log, Failed(Event("archive_append", b, path)))
       /\ UNCHANGED << run, commit, sign, i, todo, branch, branches, warned, failed,
                       prepared, pushed, archives >>

\* backup_tar.append_dir_all(".", repos.join(repo))?: the mirror as it is now
AppendArchive(path, b, nextPc) ==
    \/ /\ archives' = [archives EXCEPT ![path].full = TRUE,
                                       ![path].rewritten = mirror[cur].rewritten]
       /\ log' = Append(log, Event("archive_append", b, path))
       /\ pc' = nextPc
       /\ UNCHANGED << run, commit, sign, i, todo, branch, branches, warned, failed,
                       prepared, pushed, clean, faults >>
    \/ /\ CanFault
       /\ faults' = faults + 1
       /\ Abort
       /\ clean' = FALSE
       /\ archives' = [archives EXCEPT ![path].closed = TRUE]
       /\ log' = Append(log, Failed(Event("archive_append", b, path)))

\* the builder kept alive into the rewrite: the file stays open
DropArchive_Leaked(path, b) ==
    /\ archives' = archives
    /\ log' = Append(log, Event("archive_close", b, path))

\* drop(backup_tar): the builder finishes the archive and the file is closed
DropArchive(path, b) ==
    /\ archives' = [archives EXCEPT ![path].closed = TRUE]
    /\ log' = Append(log, Event("archive_close", b, path))

\* l.184-187: the whole-repository archive is created
BackupCreate ==
    /\ pc = "w_create"
    /\ UNCHANGED cbVars
    /\ CreateArchive(WholeArchivePath(cur), NoBranch, "w_append")
    /\ UNCHANGED mirror

\* l.189
BackupAppend ==
    /\ pc = "w_append"
    /\ UNCHANGED cbVars
    /\ AppendArchive(WholeArchivePath(cur), NoBranch, "w_drop")
    /\ UNCHANGED mirror

\* l.190-196: the archive is closed, the counter starts at 0 and the branch
\* iterator is created
BackupDrop ==
    /\ pc = "w_drop"
    /\ UNCHANGED cbVars
    /\ DropArchive(WholeArchivePath(cur), NoBranch)
    /\ branches' = 0
    /\ todo' = EnumerateBranches(mirror[cur])
    /\ pc' = "loop"
    /\ UNCHANGED << run, commit, sign, i, branch, mirror, warned, failed, clean,
                    prepared, pushed, faults >>

\* the loop body without its backup: straight to the checkout
NextBranch_NoBackup ==
    /\ pc = "loop"
    /\ UNCHANGED cbVars
    /\ IF todo = <<>>
       THEN /\ pc' = "gc"
            /\ UNCHANGED << todo, branch >>
       ELSE /\ branch' = Head(todo)
            /\ todo' = Tail(todo)
            /\ pc' = "checkout"
    /\ UNCHANGED << run, commit, sign, i, branches, mirror, archives, log, warned,
                    failed, clean, prepared, pushed, faults >>

\* l.194: the next branch of the iterator, or the end of the loop
NextBranch ==
    /\ pc = "loop"
    /\ UNCHANGED cbVars
    /\ IF todo = <<>>
       THEN /\ pc' = "gc"
            /\ UNCHANGED << todo, branch >>
       ELSE /\ branch' = Head(todo)
            /\ todo' = Tail(todo)
            /\ pc' = "b_create"
    /\ UNCHANGED << run, commit, sign, i, branches, mirror, archives, log, warned,
                    failed, clean, prepared, pushed, faults >>

\* l.202-203: the archive of the branch is created
BranchBackupCreate ==
    /\ pc = "b_create"
    /\ UNCHANGED cbVars
    /\ CreateArchive(BranchArchivePath(cur, branch), branch, "b_append")
    /\ UNCHANGED mirror

\* l.205
BranchBackupAppend ==
    /\ pc = "b_append"
    /\ UNCHANGED cbVars
    /\ AppendArchive(BranchArchivePath(cur, branch), branch, "b_drop")
    /\ UNCHANGED mirror

\* the loop body without its checkout
BranchBackupDrop_NoCheckout ==
    /\ pc = "b_drop"
    /\ UNCHANGED cbVars
    /\ DropArchive(BranchArchivePath(cur, branch), branch)
    /\ pc' = "name"
    /\ UNCHANGED << run, commit, sign, i, todo, branch, branches, mirror, warned,
                    failed, clean, prepared, pushed, faults >>

\* l.206
BranchBackupDrop ==
    /\ pc = "b_drop"
    /\ UNCHANGED cbVars
    /\ DropArchive(BranchArchivePath(cur, branch), branch)
    /\ pc' = "checkout"
    /\ UNCHANGED << run, commit, sign, i, todo, branch, branches, mirror, warned,
                    failed, clean, prepared, pushed, faults >>

(* --------------------------- external commands ------------------------- *)

\* Command::output().expect(..) when the command cannot be started
SpawnFails ==
    /\ CanFault
    /\ faults' = faults + 1
    /\ Abort
    /\ UNCHANGED << mirror, archives, log, clean >>

\* git checkout <t>: an existing branch, or a new branch tracking origin/<t>
CheckedOut(m, t) == [m EXCEPT !.locals = m.locals \cup {t}, !.head = t]

\* l.211-215: git checkout of the last '/'-component of the branch name
Checkout ==
    /\ pc = "checkout"
    /\ UNCHANGED cbVars
    /\ LET t == SplitLast(branch)
           e == Event("checkout", branch, <<"checkout">> \o t)
       IN  \/ /\ IF t \in mirror[cur].locals \cup mirror[cur].remotes
                 THEN /\ mirror' = [mirror EXCEPT ![cur] = CheckedOut(mirror[cur], t)]
                      /\ log' = Append(log, e)
                 ELSE /\ log' = Append(log, Failed(e))
                      /\ UNCHANGED mirror
              /\ pc' = "name"
              /\ UNCHANGED << run, commit, sign, i, todo, branch, branches, archives,
                              warned, failed, clean, prepared, pushed, faults >>
           \/ SpawnFails

\* the exit status of the rewrite tool looked at: non-zero ends the run
FilterRepo_StatusChecked(op, callback, nextPc) ==
    LET e == Event(op, branch, <<"filter-repo", "--force", "--partial", "--sdr", callback>>)
    IN  \/ /\ mirror' = [mirror EXCEPT ![cur].rewritten = TRUE]
           /\ log' = Append(log, e)
           /\ pc' = nextPc
           /\ UNCHANGED << run, commit, sign, i, todo, branch, warned, failed,
                           prepared, pushed, archives, clean, faults >>
        \/ /\ CanFault
           /\ faults' = faults + 1
           /\ log' = Append(log, Failed(e))
           /\ clean' = FALSE
           /\ Abort
           /\ UNCHANGED << mirror, archives >>
        \/ SpawnFails

\* git filter-repo --force --partial --sdr with a callback: exit status 0
\* means the history of the mirror was rewritten
FilterRepo(op, callback, nextPc) ==
    LET e == Event(op, branch, <<"filter-repo", "--force", "--partial", "--sdr", callback>>)
    IN  \/ /\ \/ /\ mirror' = [mirror EXCEPT ![cur].rewritten = TRUE]
                 /\ log' = Append(log, e)
                 /\ UNCHANGED << clean, faults >>
              \/ /\ CanFault
                 /\ faults' = faults + 1
                 /\ log' = Append(log, Failed(e))
                 /\ clean' = FALSE
                 /\ UNCHANGED mirror
           /\ pc' = nextPc
           /\ UNCHANGED << run, commit, sign, i, todo, branch, warned, failed,
                           prepared, pushed, archives >>
        \/ SpawnFails

\* l.217-221
RewriteNames ==
    /\ pc = "name"
    /\ UNCHANGED cbVars
    /\ FilterRepo("name_rewrite", "--name-callback", "email")
    /\ UNCHANGED branches

\* l.225-232: the email rewrite, then branches += 1
RewriteEmails ==
    /\ pc = "email"
    /\ UNCHANGED cbVars
    /\ FilterRepo("email_rewrite", "--email-callback", "loop")
    /\ branches' = IF pc' = "loop" THEN branches + 1 ELSE branches

\* l.240-244: the arguments start with "git", so git is asked for its
\* subcommand `git`, which does not exist: the command exits non-zero
CollectGarbage ==
    /\ pc = "gc"
    /\ UNCHANGED cbVars
    /\ \/ /\ log' = Append(log, Failed(Event("gc", NoBranch,
                                <<"git", "gc", "--prune=now", "--aggressive">>)))
          /\ pc' = "resign_check"
          /\ UNCHANGED << run, commit, sign, i, todo, branch, branches, mirror, archives,
                          warned, failed, clean, prepared, pushed, faults >>
       \/ /\ SpawnFails

\* the test of l.246 without the branch count
ResignCheck_AnyCount ==
    /\ pc = "resign_check"
    /\ UNCHANGED cbVars
    /\ pc' = IF sign THEN "resign1" ELSE "warn"
    /\ UNCHANGED << run, commit, sign, i, todo, branch, branches, mirror, archives, log,
                    warned, failed, clean, prepared, pushed, faults >>

\* l.246
ResignCheck ==
    /\ pc = "resign_check"
    /\ UNCHANGED cbVars
    /\ pc' = IF sign /\ branches = 1 THEN "resign1" ELSE "warn"
    /\ UNCHANGED << run, commit, sign, i, todo, branch, branches, mirror, archives, log,
                    warned, failed, clean, prepared, pushed, faults >>

ResignPc == << "resign1", "resign2", "resign3", "resign4", "warn" >>

ResignArgs == << <<"rebase", "--exec", "git commit --amend --no-edit -n -S", "--root">>,
                 <<"rebase", "--continue">>,
                 <<"rebase", "--committer-date-is-author-date", "--root">>,
                 <<"rebase", "--continue">> >>

\* l.249-271: the four rebase commands of the resign stage
Resign(k) ==
    /\ pc = ResignPc[k]
    /\ UNCHANGED cbVars
    /\ \/ /\ log' = Append(log, Event("resign", NoBranch, ResignArgs[k]))
          /\ mirror' = [mirror EXCEPT ![cur].signed = TRUE]
          /\ pc' = ResignPc[k + 1]
          /\ UNCHANGED << run, commit, sign, i, todo, branch, branches, archives,
                          warned, failed, clean, prepared, pushed, faults >>
       \/ SpawnFails

\* l.274-278: the warning about the branch count, and the end of the loop body
WarnAndFinish ==
    /\ pc = "warn"
    /\ UNCHANGED cbVars
    /\ LET done == [Event("finished", NoBranch, <<>>) EXCEPT !.count = branches]
           warning == [Event("warn", NoBranch, <<>>) EXCEPT !.count = branches]
       IN  IF branches # 1
           THEN /\ warned' = warned \cup {cur}
                /\ log' = log \o << warning, done >>
           ELSE /\ log' = Append(log, done)
                /\ UNCHANGED warned
    /\ prepared' = IF clean THEN prepared \cup {cur} ELSE prepared
    /\ i' = i + 1
    /\ pc' = NextRepoPc
    /\ UNCHANGED << run, commit, sign, todo, branch, branches, mirror, archives,
                    failed, clean, pushed, faults >>

(* ------------------------------- publish ------------------------------- *)

PushEvent == Event("push", NoBranch, <<"push", "--all", "--force">>)

\* a missing mirror directory passed over without a word
SpawnInMissingDir_Skipped ==
    /\ i' = i + 1
    /\ pc' = IF i + 1 > Len(Repositories) THEN "exited" ELSE "push"
    /\ UNCHANGED << run, commit, sign, todo, branch, branches, warned, failed, prepared,
                    pushed, log, faults >>

\* Command::output() with a current_dir that does not exist is an Err: the
\* expect panics
SpawnInMissingDir ==
    /\ Abort
    /\ UNCHANGED << log, faults >>

\* l.284-298: git push --all --force in the mirror directory; the command
\* cannot be started in a directory that does not exist
ForcePush ==
    /\ pc = "push"
    /\ UNCHANGED cbVars
    /\ \/ /\ ~mirror[cur].dir
          /\ SpawnInMissingDir
       \/ /\ mirror[cur].dir
          /\ \/ /\ mirror[cur].git
                /\ log' = Append(log, PushEvent)
                /\ pushed' = pushed \cup {cur}
                /\ UNCHANGED faults
             \/ /\ ~mirror[cur].git
                /\ log' = Append(log, Failed(PushEvent))
                /\ UNCHANGED << pushed, faults >>
             \/ /\ mirror[cur].git
                /\ CanFault
                /\ faults' = faults + 1
                /\ log' = Append(log, Failed(PushEvent))
                /\ UNCHANGED pushed
          /\ i' = i + 1
          /\ pc' = IF i + 1 > Len(Repositories) THEN "exited" ELSE "push"
          /\ UNCHANGED << run, commit, sign, todo, branch, branches, warned, failed, prepared >>
       \/ /\ mirror[cur].dir
          /\ CanFault
          /\ faults' = faults + 1
          /\ Abort
          /\ UNCHANGED log
    /\ UNCHANGED << mirror, archives, clean >>

Next ==
    \/ StartRun
    \/ CreateCloneDir
    \/ CloneRepository
    \/ OpenRepository
    \/ FetchAll
    \/ BackupCreate
    \/ BackupAppend
    \/ BackupDrop
    \/ NextBranch
    \/ BranchBackupCreate
    \/ BranchBackupAppend
    \/ BranchBackupDrop
    \/ Checkout
    \/ RewriteNames
    \/ RewriteEmails
    \/ CollectGarbage
    \/ ResignCheck
    \/ \E k \in 1..4 : Resign(k)
    \/ WarnAndFinish
    \/ ForcePush

Spec == Init /\ [][Next]_vars

(* ------------------- the callbacks, on every input --------------------- *)

pipelineVars == << run, commit, sign, pc, i, todo, branch, branches, mirror, archives,
                   log, warned, failed, clean, prepared, pushed, faults >>

\* l.69-103: any configuration is loaded and the callbacks are generated;
\* the run stands at the name rewrite or at the email rewrite of a branch
CallbackInit ==
    /\ run = 1
    /\ commit = FALSE
    /\ sign = FALSE
    /\ pc \in {"name", "email"}
    /\ i = 1
    /\ todo = <<>>
    /\ branch = Main
    /\ branches = 0
    /\ mirror = [r \in RepoSet |-> ClonedMirror(r)]
    /\ archives = <<>>
    /\ log = <<>>
    /\ warned = {}
    /\ failed = NoFailure
    /\ clean = TRUE
    /\ prepared = {}
    /\ pushed = {}
    /\ faults = 0
    /\ emails \in IF pc = "email" THEN Policies ELSE { <<>> }
    /\ keys \in Orders(DOMAIN emails)
    /\ addr = <<>>
    /\ result = NoResult
    /\ again = NoResult
    /\ names \in IF pc = "name" THEN Policies ELSE { <<>> }
    /\ declared \in Orders(DOMAIN names)
    /\ norder \in Orders(DOMAIN names)
    /\ name = <<>>
    /\ nresult = NoResult
    /\ nagain = NoResult

\* the rewrite tool calls the email callback with the address of a commit
CallEmailCallback ==
    /\ pc = "email"
    /\ \E a \in Addresses :
         /\ addr' = a
         /\ result' = email_cleaner(emails, keys, a)
    /\ again' = NoResult
    /\ UNCHANGED << pipelineVars, emails, keys, nameVars >>

\* l.225-229 in two runs in a row: the callback of the second run, generated
\* from the same map (whose keys may come in another order), is called with
\* what the first run wrote
RerunEmailCallback ==
    /\ pc = "email"
    /\ \E a \in Addresses, o \in Orders(DOMAIN emails) :
         /\ addr' = a
         /\ result' = email_cleaner(emails, keys, a)
         /\ again' = IF result'.raised THEN NoResult
                     ELSE email_cleaner(emails, o, result'.value)
    /\ UNCHANGED << pipelineVars, emails, keys, nameVars >>

\* the rewrite tool calls the name callback with the name of a commit
CallNameCallback ==
    /\ pc = "name"
    /\ \E n \in Addresses :
         /\ name' = n
         /\ nresult' = name_cleaner(names, norder, n)
    /\ nagain' = NoResult
    /\ UNCHANGED << pipelineVars, emails, keys, addr, result, again, names, declared, norder >>

\* l.217-221 in two runs in a row: the second process iterates its HashMap
\* in an order of its own
RerunNameCallback ==
    /\ pc = "name"
    /\ \E n \in Addresses, o \in Orders(DOMAIN names) :
         /\ name' = n
         /\ nresult' = name_cleaner(names, norder, n)
         /\ nagain' = name_cleaner(names, o, nresult'.value)
    /\ UNCHANGED << pipelineVars, emails, keys, addr, result, again, names, declared, norder >>

CallbackNext ==
    \/ CallEmailCallback
    \/ RerunEmailCallback
    \/ CallNameCallback
    \/ RerunNameCallback

CallbackSpec == CallbackInit /\ [][CallbackNext]_vars

(* ----------------------------- properties ------------------------------ *)

Range(q) == { q[k] : k \in DOMAIN q }

Destructive == {"checkout", "name_rewrite", "email_rewrite"}

\* the archive at the path is on disk, complete and closed, and holds the repository
Sealed(path, repo) ==
    /\ path \in DOMAIN archives
    /\ archives[path].of = repo
    /\ archives[path].full
    /\ archives[path].closed

\* the current run has created, written and closed the archive at the path
WrittenThisRun(path) ==
    \E c \in DOMAIN log :
        /\ log[c].op = "archive_close" /\ log[c].args = path
        /\ \E b \in 1..(c - 1) :
              /\ log[b].op = "archive_append" /\ log[b].ok /\ log[b].args = path
              /\ \E a \in 1..(b - 1) :
                    log[a].op = "archive_create" /\ log[a].ok /\ log[a].args = path

\* C1: whenever a Prepare run stands at the checkout, the name rewrite or the
\* email rewrite of a branch B of a repository R, the archive of B and the
\* whole-repository archive of R have been created, completely written and
\* closed by this run.
C1_ArchivesSealedBeforeRewrite ==
    pc \in {"checkout", "name", "email"} =>
        /\ Sealed(BranchArchivePath(cur, branch), cur)
        /\ WrittenThisRun(BranchArchivePath(cur, branch))
        /\ Sealed(WholeArchivePath(cur), cur)
        /\ WrittenThisRun(WholeArchivePath(cur))

C1_Witness ==
    /\ pc = "email"
    /\ cur = Tools
    /\ branch = Origin(FeatX)
    /\ Sealed(BranchArchivePath(Tools, Origin(FeatX)), Tools)

\* C2: once creating or writing an archive of a repository R has failed, the
\* run executes no checkout, name rewrite or email rewrite on R.
C2_NoRewriteAfterFailedBackup ==
    \A k \in DOMAIN log :
        (log[k].op \in {"archive_create", "archive_append"} /\ ~log[k].ok) =>
            \A l \in (k + 1)..Len(log) :
                ~(log[l].repo = log[k].repo /\ log[l].op \in Destructive)

C2_Witness ==
    /\ pc = "aborted"
    /\ failed.at = "b_append"
    /\ branches >= 1
    /\ ~log[Len(log)].ok
    /\ log[Len(log)].op = "archive_append"

\* C3: the phase of a run is fixed when it starts; a run without --commit
\* executes no push, a run with --commit executes nothing but pushes, and a
\* remote is overwritten only in a run with --commit.
C3_PhaseFixedPerRun ==
    [][ /\ run' = run => commit' = commit
        /\ \A k \in DOMAIN log' : (log'[k].op = "push") <=> commit'
        /\ pushed' # pushed => commit' ]_vars

C3_Witness ==
    /\ run = 2
    /\ commit
    /\ pc = "exited"
    /\ pushed = RepoSet
    /\ prepared = RepoSet

\* C4: a repository is force-pushed only if an earlier Prepare run has
\* completed its mirror, backup and rewrite stages.
C4_PushOnlyPrepared == pushed \subseteq prepared

\* C5: in a Publish run a repository whose mirror directory is missing is not
\* pushed: the run stops there with a failure reported at that repository.
C5_MissingMirrorFailsLoudly ==
    [][ (pc = "push" /\ ~mirror[cur].dir) =>
            /\ pc' = "aborted"
            /\ failed'.repo = cur
            /\ failed'.at = "push"
            /\ log' = log
            /\ pushed' = pushed ]_vars

C5_Witness ==
    /\ commit
    /\ pc = "aborted"
    /\ failed.at = "push"
    /\ ~mirror[failed.repo].dir

\* the path p lies below the directory d
IsUnder(p, d) ==
    /\ Len(p) > Len(d) + 1
    /\ SubSeq(p, 1, Len(d)) = d
    /\ p[Len(d) + 1] = "/"

\* the archive files below backups/<repo>/
BranchArchives(repo) == { p \in DOMAIN archives : IsUnder(p, Join(backups, repo)) }

\* C6: when Prepare has finished a repository with N branches there are N
\* archive files below its branch-backup directory, and its whole-repository
\* archive.
C6_OneArchivePerBranch ==
    \A k \in DOMAIN log :
        log[k].op = "finished" =>
            /\ Cardinality(BranchArchives(log[k].repo)) = log[k].count
            /\ WholeArchivePath(log[k].repo) \in DOMAIN archives

\* C7 as stated: when the first rewrite of a repository runs, the archives of
\* all its branches have been written.
C7_AllArchivesBeforeFirstRewrite ==
    pc \in {"name", "email"} =>
        \A b \in Range(todo) :
            \E k \in DOMAIN log :
                /\ log[k].op = "archive_close"
                /\ log[k].repo = cur
                /\ log[k].branch = b

\* C7, amended: every name or email rewrite of a branch B of R comes after
\* the archive of B and after the whole-repository archive of R were closed.
C7_ArchiveBeforeOwnRewrite ==
    \A k \in DOMAIN log :
        log[k].op \in {"name_rewrite", "email_rewrite"} =>
            /\ \E a \in 1..(k - 1) :
                  /\ log[a].op = "archive_close"
                  /\ log[a].repo = log[k].repo
                  /\ log[a].branch = log[k].branch
            /\ \E w \in 1..(k - 1) :
                  /\ log[w].op = "archive_close"
                  /\ log[w].repo = log[k].repo
                  /\ log[w].branch = NoBranch

\* the archive of a second branch is taken after the first branch was rewritten
C7_Witness ==
    \E k \in DOMAIN log :
        /\ log[k].op = "email_rewrite" /\ log[k].ok
        /\ \E a \in (k + 1)..Len(log) :
              /\ log[a].op = "archive_close" /\ log[a].repo = log[k].repo
              /\ log[a].branch # log[k].branch
              /\ \E l \in (a + 1)..Len(log) :
                    log[l].op = "name_rewrite" /\ log[l].branch = log[a].branch

\* the steps q hold a resign command on the repository
ResignedIn(q, repo) == \E k \in DOMAIN q : q[k].op = "resign" /\ q[k].repo = repo

\* the resign commands ran on the repository in this run
Resigned(repo) == ResignedIn(log, repo)

\* C8: a repository that gets through the rewrite stage is resigned exactly
\* when --sign was given and its branch counter is 1; with any other counter
\* value it is not resigned, a warning is recorded and the run goes on.
C8_ResignIffOneBranchAndSign ==
    [][ /\ \A k \in DOMAIN log' :
              log'[k].op = "finished" =>
                  /\ ResignedIn(log', log'[k].repo) <=> (sign' /\ log'[k].count = 1)
                  /\ log'[k].count # 1 => log'[k].repo \in warned'
        /\ (pc = "resign_check" /\ branches # 1) => pc' = "warn"
        /\ (pc = "warn" /\ branches # 1) =>
              /\ cur \in warned'
              /\ pc' \in {"mkdir", "exited"} ]_vars

C8_Witness ==
    /\ sign
    /\ Resigned(Widgets)
    /\ \E k \in DOMAIN log : log[k].op = "finished" /\ log[k].repo = Widgets /\ log[k].count = 1

\* C9: after the branch loop the counter is the number of branches the
\* repository has.
C9_CounterIsBranchCount ==
    pc = "gc" => branches = Cardinality(RemoteBranches(cur))

\* C10: the email callback returns an address that is not a key unchanged and
\* without an error, and replaces a key by its value, which is then not the
\* address that was replaced.
C10_EmailExactMatch ==
    result.called =>
        IF addr \in DOMAIN emails
        THEN /\ ~result.raised
             /\ result.value = emails[addr]
             /\ emails[addr] # addr => result.value # addr
        ELSE /\ ~result.raised
             /\ result.value = addr

\* the positions of the declared patterns that match the name
DeclaredMatches == Matching(declared, name)

\* C11: the name callback writes the replacement of the pattern that comes
\* first in the configuration among those that match, and returns a name
\* that no pattern matches unchanged.
C11_FirstDeclaredMatchWins ==
    nresult.called =>
        /\ ~nresult.raised
        /\ nresult.value = IF DeclaredMatches = {} THEN name
                           ELSE names[declared[SetMin(DeclaredMatches)]]

\* C12: what a second Prepare run writes for an identity the first run wrote
\* is what the first run wrote, for emails and for names.
C12_SecondRunChangesNothing ==
    /\ again.called => (~again.raised /\ again.value = result.value)
    /\ nagain.called => (~nagain.raised /\ nagain.value = nresult.value)

\* the place of a repository in conf.repositories
RepoIndex(repo) == CHOOSE k \in 1..Len(Repositories) : Repositories[k] = repo

\* the run got to the repository after step k of the log: it executed a step
\* on it, or it stands (or stopped) in its loop body
ReachedAfter(k, repo) ==
    \/ \E l \in (k + 1)..Len(log) : log[l].repo = repo
    \/ pc # "exited" /\ i = RepoIndex(repo)

FailedClone(e) == e.op = "clone" /\ ~e.ok

FailedArchive(e) == e.op \in {"archive_create", "archive_append"} /\ ~e.ok

FailedRewrite(e) == e.op \in {"name_rewrite", "email_rewrite"} /\ ~e.ok

\* C13: after a failed clone of R the run executes no further step on R, does
\* not stop at R, and goes on with the repository that follows R in the list.
C13_CloneFailureSkipsRepository ==
    \A k \in DOMAIN log :
        FailedClone(log[k]) =>
            /\ \A l \in (k + 1)..Len(log) : log[l].repo # log[k].repo
            /\ failed.repo # log[k].repo
            /\ \A r \in RepoSet :
                  RepoIndex(r) = RepoIndex(log[k].repo) + 1 => ReachedAfter(k, r)

C13_Witness ==
    /\ pc = "exited"
    /\ \E k \in DOMAIN log :
          /\ FailedClone(log[k])
          /\ log[k].repo = Widgets
          /\ log[Len(log)].op = "finished"
          /\ log[Len(log)].repo = Tools

\* C14 as stated: after a failed archive write on R the run goes on with the
\* repository that follows R in the list.
C14_FleetContinuesAfterArchiveFailure ==
    \A k \in DOMAIN log :
        FailedArchive(log[k]) =>
            \A r \in RepoSet :
                RepoIndex(r) = RepoIndex(log[k].repo) + 1 => ReachedAfter(k, r)

\* C14, amended: a failed archive write is the last step of the run: the
\* run stops at R and no later repository is processed.
C14_ArchiveFailureEndsRun ==
    \A k \in DOMAIN log :
        FailedArchive(log[k]) =>
            /\ k = Len(log)
            /\ pc = "aborted"
            /\ failed.repo = log[k].repo
            /\ i = RepoIndex(log[k].repo)

C14_Witness ==
    /\ pc = "aborted"
    /\ failed.repo = Widgets
    /\ failed.at \in {"w_create", "b_create"}
    /\ FailedArchive(log[Len(log)])
    /\ \A k \in DOMAIN log : log[k].repo # Tools

C16_EveryRepositoryPushAttempted ==
    (commit /\ pc \in {"exited", "aborted"}) =>
        \A r \in RepoSet :
            \/ failed.repo = r
            \/ \E k \in DOMAIN log : log[k].op = "push" /\ log[k].repo = r

\* C17: the ref named in the checkout that precedes the rewrites of a branch
\* is that branch.
C17_CheckoutOfTheBranchItself ==
    pc = "name" =>
        /\ log[Len(log)].op = "checkout"
        /\ log[Len(log)].args = <<"checkout">> \o branch

\* step e directly follows step p in the order of the loop bodies
FollowsInOrder(p, e) ==
    /\ RepoIndex(p.repo) <= RepoIndex(e.repo)
    /\ p.repo # e.repo => e.op = "mkdir"
    /\ (e.op = "archive_create" /\ e.branch = NoBranch) =>
          (p.op = "pull" /\ p.repo = e.repo)
    /\ (e.op = "archive_create" /\ e.branch # NoBranch) =>
          /\ p.repo = e.repo
          /\ \/ p.op = "archive_close" /\ p.branch = NoBranch
             \/ p.op = "email_rewrite" /\ p.branch # e.branch
    /\ (e.op = "archive_append" /\ e.branch # NoBranch) =>
          (p.op = "archive_create" /\ p.ok /\ p.branch = e.branch /\ p.repo = e.repo)
    /\ (e.op = "archive_close" /\ e.branch # NoBranch) =>
          (p.op = "archive_append" /\ p.ok /\ p.branch = e.branch /\ p.repo = e.repo)
    /\ e.op = "checkout" =>
          (p.op = "archive_close" /\ p.branch = e.branch /\ p.repo = e.repo)
    /\ e.op = "name_rewrite" =>
          (p.op = "checkout" /\ p.branch = e.branch /\ p.repo = e.repo)
    /\ e.op = "email_rewrite" =>
          (p.op = "name_rewrite" /\ p.branch = e.branch /\ p.repo = e.repo)

\* C18: the steps of a Prepare run come one after the other: repositories in
\* list order, the fetch before the whole-repository archive, and for each
\* branch its archive, checkout, name rewrite and email rewrite in this order,
\* the first step of a branch after the email rewrite of the branch before.
C18_StrictlySequential ==
    ~commit => \A k \in 2..Len(log) : FollowsInOrder(log[k - 1], log[k])

C18_Witness ==
    /\ ~commit
    /\ pc = "exited"
    /\ \E k \in DOMAIN log : log[k].op = "finished" /\ log[k].repo = Widgets
    /\ log[Len(log)].op = "finished"
    /\ log[Len(log)].repo = Tools
    /\ log[Len(log)].count = 5

\* C19: a repository that Prepare has finished has had one run of
\* git gc --prune=now --aggressive, before the resign decision.
C19_OneGcPass ==
    \A k \in DOMAIN log :
        log[k].op = "finished" =>
            \E g \in 1..(k - 1) :
                /\ log[g].op = "gc"
                /\ log[g].repo = log[k].repo
                /\ log[g].args = <<"gc", "--prune=now", "--aggressive">>
                /\ log[g].ok

\* C20: as long as nothing has been pushed, the whole-repository archive of
\* a rewritten mirror is complete and holds the history from before the
\* rewrite.
C20_BackupStaysPreRewrite ==
    (pushed = {} /\ ~commit) =>
        \A r \in RepoSet :
            mirror[r].rewritten =>
                /\ Sealed(WholeArchivePath(r), r)
                /\ ~archives[WholeArchivePath(r)].rewritten

====
